---- MODULE Spec2Model ----
(***************************************************************************)
(* State machine of the NeuroMotion assessment wizard (pk-hack/src).       *)
(*                                                                         *)
(* App.jsx owns currentStep and testResults.  SurveyStep, TapTestStep and  *)
(* SpiralCanvasStep are mounted only while currentStep names them; their   *)
(* React state is created at mount and destroyed at unmount.  A request    *)
(* issued by a component outlives the component: its continuation still    *)
(* calls the App handlers it closed over (onComplete, onFinalResults),     *)
(* while its setState calls on the unmounted component do nothing.         *)
(***************************************************************************)
EXTENDS Integers, Sequences, FiniteSets, Bags, TLC

\* ---------------------------------------------------------------- bounds
\* Requests that may be unresolved at the same time.
MaxInFlight == 2
\* Taps recorded in one capture.
MaxTaps == 4
\* Largest elapsed time (abstract units) measured between two taps.
MaxElapsed == 1
\* Strokes begun on the canvas between two clears.
MaxStrokes == 2
\* Scores the scoring service answers with (a subset of 0..100).
ScoreValues == {50}
\* Answers the user picks among the options 0..4.
AnswerChoices == {2}
\* risk_level values the aggregate service answers with.
RiskResponses == {"Low", "Severe"}
\* Sessions the session store holds at most when the history is loaded.
MaxSessions == 31
\* Numbers of stored sessions a history load finds, and total_sessions values
\* the statistics read answers with.
StoredSessionCounts == {0, 1, 11, MaxSessions}
StatTotals == {0, 40}
\* What the reads answer with while the wizard is what is looked at.
WizardSessionCounts == {1}
WizardStatTotals == {1}

\* ------------------------------------------------------------- constants
\* JavaScript null / undefined for a stored result and for a score.
NULL == [isNull |-> TRUE]
UNDEFINED == -1
NoError == "null"

Steps == {"landing", "survey", "taps", "spiral", "loading", "results", "history"}
QuestionIds == {"tremor", "rigidity", "bradykinesia", "balance", "walking"}
OptionValues == 0..4
RiskLevels == {"Low", "Low-Moderate", "Moderate", "Moderate-High", "High"}
TestDuration == 10
TrendLimit == 30
ComparisonLimit == 10
\* A read of Promise.all that has not resolved yet.
PENDING == [pending |-> TRUE]

SurveyValidationError == "Please answer all questions"
SurveyServiceError == "Failed to submit survey. Please try again."
TapInsufficientError == "Not enough taps recorded. Please try again with at least 3 taps."
TapServiceError == "Failed to analyze taps. Please try again."
SpiralValidationError == "Please draw a spiral before submitting"
SpiralServiceError == "Failed to analyze spiral. Please try again."
HistoryLoadError == "Failed to load results history"

VARIABLES
    currentStep,   \* App: useState("landing")
    testResults,   \* App: {survey, taps, spiral, final}
    survey,        \* SurveyStep state: answers, loading, error
    tap,           \* TapTestStep state and refs
    spiral,        \* SpiralCanvasStep state and canvas
    inflight,      \* bag of unresolved axios.post requests
    history,       \* ResultsHistory state and the results its Promise.all holds
    reads          \* unresolved axios.get requests of history loads

vars == <<currentStep, testResults, survey, tap, spiral, inflight, history, reads>>

\* ------------------------------------------------- component initial state
SurveyInit ==
    [answers |-> [q \in QuestionIds |-> UNDEFINED],
     loading |-> FALSE,
     error   |-> NoError]

TapInit ==
    [isActive         |-> FALSE,
     timeLeft         |-> TestDuration,
     tapCount         |-> 0,
     tapTimestamps    |-> <<>>,
     loading          |-> FALSE,
     error            |-> NoError,
     showInstructions |-> TRUE,
     sinceLastTap     |-> 0,
     effectTaps       |-> <<>>,
     revertTimers     |-> 0]

SpiralInit ==
    [isDrawing     |-> FALSE,
     hasDrawn      |-> FALSE,
     loading       |-> FALSE,
     error         |-> NoError,
     canvasStrokes |-> 0]

HistoryInit ==
    [sessions    |-> <<>>,
     statistics  |-> NULL,
     loading     |-> TRUE,
     error       |-> NoError,
     sessionsRes |-> PENDING,
     statsRes    |-> PENDING]

TestResultsInit == [survey |-> NULL, taps |-> NULL, spiral |-> NULL, final |-> NULL]

Init ==
    /\ currentStep = "landing"
    /\ testResults = TestResultsInit
    /\ survey = SurveyInit
    /\ tap = TapInit
    /\ spiral = SpiralInit
    /\ inflight = EmptyBag
    /\ history = HistoryInit
    /\ reads = {}

\* ------------------------------------------------------------ the network
InFlightCount == BagCardinality(inflight)

Requests == BagToSet(inflight)

Issue(bag, r) == bag (+) SetToBag({r})

Resolve(bag, r) == bag (-) SetToBag({r})

\* Requests whose issuing component is not the one shown at step s lose their
\* component: a component is unmounted as soon as the step leaves it.
OrphanOne(r, s) ==
    IF r.kind \in {"survey", "taps", "spiral"} /\ r.kind # s
    THEN [r EXCEPT !.alive = FALSE]
    ELSE r

Orphan(bag, s) ==
    LET rs == BagToSet(bag)
        img == {OrphanOne(r, s) : r \in rs}
        cnt(x) == LET pre == {r \in rs : OrphanOne(r, s) = x}
                      sum[S \in SUBSET pre] ==
                          IF S = {} THEN 0
                          ELSE LET y == CHOOSE y \in S : TRUE
                               IN bag[y] + sum[S \ {y}]
                  IN sum[pre]
    IN [x \in img |-> cnt(x)]

\* The two reads fetchData starts, and reads whose result nothing waits for
\* any more (the component was unmounted, or Promise.all already rejected).
\* Reads nothing waits for are kept without their number.
LoadReads == {[which |-> w, alive |-> TRUE] : w \in {"sessions", "statistics"}}

\* Reads that stay attached to the component that started them.
StaleStillApplied(rs) == rs

Stale(rs) == {[r EXCEPT !.alive = FALSE] : r \in rs}

\* ------------------------------------------------------- App (App.jsx)
\* renderStep: the component a step shows keeps its state, every other
\* component is unmounted and starts from its initial state when next shown.
Render(s, sv, tp, sp, bag) ==
    /\ currentStep' = s
    /\ survey' = IF s = "survey" THEN sv ELSE SurveyInit
    /\ tap' = IF s = "taps" THEN tp ELSE TapInit
    /\ spiral' = IF s = "spiral" THEN sp ELSE SpiralInit
    /\ inflight' = Orphan(bag, s)
    /\ history' = IF s = "history" /\ currentStep = "history" THEN history ELSE HistoryInit
    /\ reads' = IF s # "history" THEN Stale(reads)
                ELSE IF currentStep = "history" THEN reads
                ELSE Stale(reads) \cup LoadReads

ScoreOf(result) == IF result = NULL THEN UNDEFINED ELSE result.score

handleStartAssessment ==
    /\ currentStep \in {"landing", "loading"}
    /\ Render("survey", survey, tap, spiral, inflight)
    /\ UNCHANGED testResults

handleRestart ==
    /\ currentStep = "results"
    /\ testResults.final # NULL
    /\ testResults' = TestResultsInit
    /\ Render("landing", survey, tap, spiral, inflight)

goToHistory ==
    /\ Render("history", survey, tap, spiral, inflight)
    /\ UNCHANGED testResults

goHome ==
    /\ currentStep # "landing"
    /\ Render("landing", survey, tap, spiral, inflight)
    /\ UNCHANGED testResults

\* Response continuations reach the App through the props they closed over.
handleSurveyComplete(result, bag) ==
    /\ testResults' = [testResults EXCEPT !.survey = result]
    /\ Render("taps", survey, tap, spiral, bag)

handleTapsComplete(result, bag) ==
    /\ testResults' = [testResults EXCEPT !.taps = result]
    /\ Render("spiral", survey, tap, spiral, bag)

handleSpiralComplete(result, bag) ==
    /\ testResults' = [testResults EXCEPT !.spiral = result]
    /\ Render("loading", survey, tap, spiral, bag)

\* A handler that shows the results step without storing the record.
handleFinalResultsStepOnly(result, bag) ==
    /\ UNCHANGED testResults
    /\ Render("results", survey, tap, spiral, bag)

handleFinalResults(result, bag) ==
    /\ testResults' = [testResults EXCEPT !.final = result]
    /\ Render("results", survey, tap, spiral, bag)

\* ------------------------------------------- SurveyStep (unnamed/part_000)
\* A validation that forgets the last question.
isCompleteButWalking(answers) ==
    \A q \in QuestionIds \ {"walking"} : answers[q] # UNDEFINED

isComplete(answers) == \A q \in QuestionIds : answers[q] # UNDEFINED

\* An update that forgets the other answers (no spread of prev).
handleAnswerChangeReplacesAll(questionId, value) ==
    /\ currentStep = "survey"
    /\ survey' = [survey EXCEPT
                      !.answers = [q \in QuestionIds |->
                                      IF q = questionId THEN value ELSE UNDEFINED]]
    /\ UNCHANGED <<currentStep, testResults, tap, spiral, inflight, history, reads>>

handleAnswerChange(questionId, value) ==
    /\ currentStep = "survey"
    /\ survey' = [survey EXCEPT !.answers[questionId] = value]
    /\ UNCHANGED <<currentStep, testResults, tap, spiral, inflight, history, reads>>

SurveyRequest(answers) == [kind |-> "survey", alive |-> TRUE, answers |-> answers]

\* handleSubmit up to its await.  The Button is disabled while loading; the
\* handler's own validation decides the incomplete case.
SurveyHandleSubmit ==
    /\ currentStep = "survey"
    /\ ~survey.loading
    /\ IF ~isComplete(survey.answers)
       THEN /\ survey' = [survey EXCEPT !.error = SurveyValidationError]
            /\ UNCHANGED inflight
       ELSE /\ InFlightCount < MaxInFlight
            /\ survey' = [survey EXCEPT !.loading = TRUE, !.error = NoError]
            /\ inflight' = Issue(inflight, SurveyRequest(survey.answers))
    /\ UNCHANGED <<currentStep, testResults, tap, spiral, history, reads>>

\* handleSubmit after the await, the request resolved.
SurveyResponse(r, score) ==
    /\ r \in Requests
    /\ r.kind = "survey"
    /\ handleSurveyComplete([score |-> score], Resolve(inflight, r))

\* handleSubmit after the await, the request rejected: catch and finally.
SurveyFailure(r) ==
    /\ r \in Requests
    /\ r.kind = "survey"
    /\ inflight' = Resolve(inflight, r)
    /\ survey' = IF r.alive
                 THEN [survey EXCEPT !.error = SurveyServiceError, !.loading = FALSE]
                 ELSE survey
    /\ UNCHANGED <<currentStep, testResults, tap, spiral, history, reads>>

\* ------------------------------------------------- TapTestStep.jsx
\* Date.now() only enters through now - lastTapRef.current: sinceLastTap is
\* that difference, growing as time passes.
TimePasses ==
    /\ currentStep = "taps"
    /\ tap.isActive
    /\ tap' = [tap EXCEPT !.sinceLastTap = @ + 1]
    /\ UNCHANGED <<currentStep, testResults, survey, spiral, inflight, history, reads>>

\* A start that keeps what the previous capture left behind.
handleStartKeepsLast ==
    /\ currentStep = "taps"
    /\ ~tap.isActive /\ ~tap.loading /\ tap.error = NoError
    /\ tap' = [tap EXCEPT !.showInstructions = FALSE,
                          !.isActive = TRUE,
                          !.timeLeft = TestDuration,
                          !.effectTaps = <<>>]
    /\ UNCHANGED <<currentStep, testResults, survey, spiral, inflight, history, reads>>

\* A Start button that is also shown with an error or during a submission.
handleStartAnytime ==
    /\ currentStep = "taps"
    /\ ~tap.isActive
    /\ tap' = [tap EXCEPT !.showInstructions = FALSE,
                          !.isActive = TRUE,
                          !.tapCount = 0,
                          !.tapTimestamps = <<>>,
                          !.timeLeft = TestDuration,
                          !.sinceLastTap = 0,
                          !.effectTaps = <<>>]
    /\ UNCHANGED <<currentStep, testResults, survey, spiral, inflight, history, reads>>

\* The Start button is rendered only when !isActive && !loading && !error.
handleStart ==
    /\ currentStep = "taps"
    /\ ~tap.isActive /\ ~tap.loading /\ tap.error = NoError
    /\ tap' = [tap EXCEPT !.showInstructions = FALSE,
                          !.isActive = TRUE,
                          !.tapCount = 0,
                          !.tapTimestamps = <<>>,
                          !.timeLeft = TestDuration,
                          !.sinceLastTap = 0,
                          !.effectTaps = <<>>]
    /\ UNCHANGED <<currentStep, testResults, survey, spiral, inflight, history, reads>>

\* A tap handler that counts a tap without recording its interval.
handleTapCountsOnly ==
    /\ currentStep = "taps"
    /\ IF ~tap.isActive \/ tap.timeLeft = 0
       THEN UNCHANGED tap
       ELSE tap' = [tap EXCEPT !.tapCount = @ + 1,
                               !.sinceLastTap = 0]
    /\ UNCHANGED <<currentStep, testResults, survey, spiral, inflight, history, reads>>

\* A tap handler without its guard.
handleTapUnguarded ==
    /\ currentStep = "taps"
    /\ tap' = [tap EXCEPT !.tapCount = @ + 1,
                          !.tapTimestamps = Append(@, tap.sinceLastTap),
                          !.sinceLastTap = 0]
    /\ UNCHANGED <<currentStep, testResults, survey, spiral, inflight, history, reads>>

handleTap ==
    /\ currentStep = "taps"
    /\ IF ~tap.isActive \/ tap.timeLeft = 0
       THEN UNCHANGED tap
       ELSE tap' = [tap EXCEPT !.tapCount = @ + 1,
                               !.tapTimestamps = Append(@, tap.sinceLastTap),
                               !.sinceLastTap = 0]
    /\ UNCHANGED <<currentStep, testResults, survey, spiral, inflight, history, reads>>

\* The interval callback while prev > 1.  timeLeft changes, so the effect runs
\* again and its new callback closes over the handleTestComplete of this
\* render, which sees the tapTimestamps of this render.
\* An interval callback that takes two seconds off the countdown.
TickSkips ==
    /\ currentStep = "taps"
    /\ tap.isActive /\ tap.timeLeft > 1
    /\ tap' = [tap EXCEPT !.timeLeft = @ - 2,
                          !.effectTaps = tap.tapTimestamps]
    /\ UNCHANGED <<currentStep, testResults, survey, spiral, inflight, history, reads>>

\* The interval callback when prev > 1.
Tick ==
    /\ currentStep = "taps"
    /\ tap.isActive /\ tap.timeLeft > 1
    /\ tap' = [tap EXCEPT !.timeLeft = @ - 1,
                          !.effectTaps = tap.tapTimestamps]
    /\ UNCHANGED <<currentStep, testResults, survey, spiral, inflight, history, reads>>

TapRequest(intervals) == [kind |-> "taps", alive |-> TRUE, intervals |-> intervals]

\* tapTimestamps.slice(1)
DropFirst(tapTimestamps) == SubSeq(tapTimestamps, 2, Len(tapTimestamps))

\* How often React runs the setTimeLeft updater of one interval callback, and
\* with it the handleTestComplete call inside the updater.
UpdaterInvocations == 1

IssueTimes(bag, r, n) == bag (+) [x \in {r} |-> n]

\* Completion processing that runs twice for one expiry.
handleTestCompleteTwice(tapTimestamps) ==
    IF Len(tapTimestamps) < 3
    THEN /\ tap' = [tap EXCEPT !.isActive = FALSE,
                               !.timeLeft = 0,
                               !.effectTaps = <<>>,
                               !.error = TapInsufficientError,
                               !.revertTimers = @ + 2]
         /\ UNCHANGED inflight
    ELSE /\ InFlightCount + 2 <= MaxInFlight
         /\ tap' = [tap EXCEPT !.isActive = FALSE,
                               !.timeLeft = 0,
                               !.effectTaps = <<>>,
                               !.loading = TRUE,
                               !.error = NoError]
         /\ inflight' = IssueTimes(inflight, TapRequest(DropFirst(tapTimestamps)), 2)

\* handleTestComplete up to its await, as the interval callback calls it: the
\* tapTimestamps it reads are those its closure captured.
handleTestComplete(tapTimestamps) ==
    IF Len(tapTimestamps) < 3
    THEN /\ tap' = [tap EXCEPT !.isActive = FALSE,
                               !.timeLeft = 0,
                               !.effectTaps = <<>>,
                               !.error = TapInsufficientError,
                               !.revertTimers = @ + UpdaterInvocations]
         /\ UNCHANGED inflight
    ELSE /\ InFlightCount + UpdaterInvocations <= MaxInFlight
         /\ tap' = [tap EXCEPT !.isActive = FALSE,
                               !.timeLeft = 0,
                               !.effectTaps = <<>>,
                               !.loading = TRUE,
                               !.error = NoError]
         /\ inflight' = IssueTimes(inflight, TapRequest(DropFirst(tapTimestamps)),
                                   UpdaterInvocations)

\* The interval callback when prev <= 1.
Expire ==
    /\ currentStep = "taps"
    /\ tap.isActive /\ tap.timeLeft = 1
    /\ handleTestComplete(tap.effectTaps)
    /\ UNCHANGED <<currentStep, testResults, survey, spiral, history, reads>>

\* A timer callback that shows the instructions but leaves the error.
RevertTimerKeepsError ==
    /\ currentStep = "taps"
    /\ tap.revertTimers > 0
    /\ tap' = [tap EXCEPT !.revertTimers = @ - 1,
                          !.showInstructions = TRUE]
    /\ UNCHANGED <<currentStep, testResults, survey, spiral, inflight, history, reads>>

\* The setTimeout(..., 3000) callback of a failed capture.
RevertTimer ==
    /\ currentStep = "taps"
    /\ tap.revertTimers > 0
    /\ tap' = [tap EXCEPT !.revertTimers = @ - 1,
                          !.showInstructions = TRUE,
                          !.error = NoError]
    /\ UNCHANGED <<currentStep, testResults, survey, spiral, inflight, history, reads>>

TapResponse(r, score) ==
    /\ r \in Requests
    /\ r.kind = "taps"
    /\ handleTapsComplete([score |-> score], Resolve(inflight, r))

\* A catch that shows the error but schedules no timer.
TapFailureNoTimer(r) ==
    /\ r \in Requests
    /\ r.kind = "taps"
    /\ inflight' = Resolve(inflight, r)
    /\ tap' = IF r.alive
              THEN [tap EXCEPT !.error = TapServiceError,
                               !.loading = FALSE]
              ELSE tap
    /\ UNCHANGED <<currentStep, testResults, survey, spiral, history, reads>>

TapFailure(r) ==
    /\ r \in Requests
    /\ r.kind = "taps"
    /\ inflight' = Resolve(inflight, r)
    /\ tap' = IF r.alive
              THEN [tap EXCEPT !.error = TapServiceError,
                               !.revertTimers = @ + 1,
                               !.loading = FALSE]
              ELSE tap
    /\ UNCHANGED <<currentStep, testResults, survey, spiral, history, reads>>

\* ------------------------------------------------ SpiralCanvasStep.jsx
startDrawing ==
    /\ currentStep = "spiral"
    /\ spiral' = [spiral EXCEPT !.isDrawing = TRUE,
                                !.hasDrawn = TRUE,
                                !.canvasStrokes = @ + 1]
    /\ UNCHANGED <<currentStep, testResults, survey, tap, inflight, history, reads>>

stopDrawing ==
    /\ currentStep = "spiral"
    /\ spiral.isDrawing
    /\ spiral' = [spiral EXCEPT !.isDrawing = FALSE]
    /\ UNCHANGED <<currentStep, testResults, survey, tap, inflight, history, reads>>

\* A clear that redraws the guide and forgets setHasDrawn(false).
handleClearCanvasOnly ==
    /\ currentStep = "spiral"
    /\ ~spiral.loading
    /\ spiral' = [spiral EXCEPT !.canvasStrokes = 0]
    /\ UNCHANGED <<currentStep, testResults, survey, tap, inflight, history, reads>>

\* The Clear button is disabled while loading.
handleClear ==
    /\ currentStep = "spiral"
    /\ ~spiral.loading
    /\ spiral' = [spiral EXCEPT !.hasDrawn = FALSE, !.canvasStrokes = 0]
    /\ UNCHANGED <<currentStep, testResults, survey, tap, inflight, history, reads>>

\* surveyScore and tapScore are the props of the render handleSubmit belongs to.
SpiralRequest ==
    [kind |-> "spiral", alive |-> TRUE,
     surveyScore |-> ScoreOf(testResults.survey),
     tapScore |-> ScoreOf(testResults.taps)]

\* handleSubmit up to its first request.  canvasRef.current is read before
\* the toBlob await, so the request leaves whatever happens in between.
SpiralHandleSubmit ==
    /\ currentStep = "spiral"
    /\ ~spiral.loading
    /\ IF ~spiral.hasDrawn
       THEN /\ spiral' = [spiral EXCEPT !.error = SpiralValidationError]
            /\ UNCHANGED inflight
       ELSE /\ InFlightCount < MaxInFlight
            /\ spiral' = [spiral EXCEPT !.loading = TRUE, !.error = NoError]
            /\ inflight' = Issue(inflight, SpiralRequest)
    /\ UNCHANGED <<currentStep, testResults, survey, tap, history, reads>>

AggregateRequest(surveyScore, tapScore, spiralScore) ==
    [kind |-> "aggregate",
     survey_score |-> surveyScore,
     tap_score |-> tapScore,
     spiral_score |-> spiralScore]

\* handleSubmit after the spiral request resolved: onComplete, then the
\* aggregate request.
SpiralResponse(r, score) ==
    /\ r \in Requests
    /\ r.kind = "spiral"
    /\ handleSpiralComplete([score |-> score],
           Issue(Resolve(inflight, r),
                 AggregateRequest(r.surveyScore, r.tapScore, score)))

\* A catch that goes on to the aggregate request.
SpiralFailureAggregates(r) ==
    /\ r \in Requests
    /\ r.kind = "spiral"
    /\ inflight' = Issue(Resolve(inflight, r),
                         AggregateRequest(r.surveyScore, r.tapScore, UNDEFINED))
    /\ spiral' = IF r.alive
                 THEN [spiral EXCEPT !.error = SpiralServiceError, !.loading = FALSE]
                 ELSE spiral
    /\ UNCHANGED <<currentStep, testResults, survey, tap, history, reads>>

\* catch: the spiral request rejected.
SpiralFailure(r) ==
    /\ r \in Requests
    /\ r.kind = "spiral"
    /\ inflight' = Resolve(inflight, r)
    /\ spiral' = IF r.alive
                 THEN [spiral EXCEPT !.error = SpiralServiceError, !.loading = FALSE]
                 ELSE spiral
    /\ UNCHANGED <<currentStep, testResults, survey, tap, history, reads>>

\* The session record the aggregate service answers with.
SessionRecord(r, riskLevel) ==
    [survey_score |-> r.survey_score,
     tap_score    |-> r.tap_score,
     spiral_score |-> r.spiral_score,
     risk_level   |-> riskLevel]

\* handleSubmit after the aggregate request resolved.
AggregateResponse(r, riskLevel) ==
    /\ r \in Requests
    /\ r.kind = "aggregate"
    /\ handleFinalResults(SessionRecord(r, riskLevel), Resolve(inflight, r))

\* A failure handler that throws the stored results away.
AggregateFailureClearsResults(r) ==
    /\ r \in Requests
    /\ r.kind = "aggregate"
    /\ inflight' = Resolve(inflight, r)
    /\ testResults' = TestResultsInit
    /\ UNCHANGED <<currentStep, survey, tap, spiral, history, reads>>

\* catch: the aggregate request rejected.  The issuing SpiralCanvasStep was
\* unmounted by onComplete, its setError and setLoading do nothing.
AggregateFailure(r) ==
    /\ r \in Requests
    /\ r.kind = "aggregate"
    /\ inflight' = Resolve(inflight, r)
    /\ UNCHANGED <<currentStep, testResults, survey, tap, spiral, history, reads>>

\* ------------------------------- ResultsHistory (WizardContainer.jsx)
Min(a, b) == IF a <= b THEN a ELSE b

Max(a, b) == IF a >= b THEN a ELSE b

\* Array.prototype.reverse on a copy.
Reverse(seq) == [i \in 1..Len(seq) |-> seq[Len(seq) + 1 - i]]

\* Array.prototype.slice(begin): a negative begin counts from the end.
SliceFrom(seq, begin) ==
    LET start == IF begin < 0 THEN Max(Len(seq) + begin, 0) ELSE Min(begin, Len(seq))
    IN SubSeq(seq, start + 1, Len(seq))

\* Math.round of a non-negative score kept in tenths.
Round(tenths) == (tenths + 5) \div 10

\* The k-th session the store received, scores in tenths; the sessions read
\* answers with the stored sessions, most recent first.
StoredSession(k) == [timestamp |-> k, overall_risk |-> (k * 37) % 1001]

SessionsNewestFirst(n) == [i \in 1..n |-> StoredSession(n + 1 - i)]

SessionsResponse(n) == [sessions |-> SessionsNewestFirst(n)]

StatisticsResponse(total) == [statistics |-> [total_sessions |-> total]]

\* The entry the trend chart draws for a session.
TrendEntry(session) ==
    [timestamp |-> session.timestamp, risk |-> Round(session.overall_risk)]

\* A trend that keeps the first 30 entries of the reversed list.
trendDataOldest(sessions) ==
    SubSeq([i \in 1..Len(sessions) |-> TrendEntry(Reverse(sessions)[i])],
           1, Min(Len(sessions), TrendLimit))

\* sessions.slice().reverse().map(...).slice(-30)
trendData(sessions) ==
    SliceFrom([i \in 1..Len(sessions) |-> TrendEntry(Reverse(sessions)[i])],
              0 - TrendLimit)

\* trendData.slice(-10), the data of the comparison chart.
comparisonData(sessions) == SliceFrom(trendData(sessions), 0 - ComparisonLimit)

\* fetchData as the Refresh button calls it.  The button is part of the view
\* that replaces the spinner, and is disabled while loading.
fetchData ==
    /\ currentStep = "history"
    /\ ~history.loading
    /\ history' = [history EXCEPT !.loading = TRUE,
                                  !.sessionsRes = PENDING,
                                  !.statsRes = PENDING]
    /\ reads' = Stale(reads) \cup LoadReads
    /\ UNCHANGED <<currentStep, testResults, survey, tap, spiral, inflight>>

\* fetchData after Promise.all resolved.
LoadResolved(sessionsRes, statsRes) ==
    [history EXCEPT !.sessions = sessionsRes.sessions,
                    !.statistics = statsRes,
                    !.error = NoError,
                    !.loading = FALSE,
                    !.sessionsRes = PENDING,
                    !.statsRes = PENDING]

\* A sessions read that is shown as soon as it resolves.
SessionsReadResolvesEarly(r, n) ==
    /\ r \in reads
    /\ r.which = "sessions"
    /\ reads' = reads \ {r}
    /\ history' =
           IF ~r.alive THEN history
           ELSE IF history.statsRes = PENDING
           THEN [history EXCEPT !.sessions = SessionsResponse(n).sessions,
                                !.sessionsRes = SessionsResponse(n)]
           ELSE LoadResolved(SessionsResponse(n), history.statsRes)
    /\ UNCHANGED <<currentStep, testResults, survey, tap, spiral, inflight>>

\* The sessions read resolves: Promise.all holds the result until the
\* statistics read has resolved too.
SessionsReadResolves(r, n) ==
    /\ r \in reads
    /\ r.which = "sessions"
    /\ reads' = reads \ {r}
    /\ history' =
           IF ~r.alive THEN history
           ELSE IF history.statsRes = PENDING
           THEN [history EXCEPT !.sessionsRes = SessionsResponse(n)]
           ELSE LoadResolved(SessionsResponse(n), history.statsRes)
    /\ UNCHANGED <<currentStep, testResults, survey, tap, spiral, inflight>>

StatsReadResolves(r, total) ==
    /\ r \in reads
    /\ r.which = "statistics"
    /\ reads' = reads \ {r}
    /\ history' =
           IF ~r.alive THEN history
           ELSE IF history.sessionsRes = PENDING
           THEN [history EXCEPT !.statsRes = StatisticsResponse(total)]
           ELSE LoadResolved(history.sessionsRes, StatisticsResponse(total))
    /\ UNCHANGED <<currentStep, testResults, survey, tap, spiral, inflight>>

\* One read rejects: Promise.all rejects at once, catch and finally run, and
\* nothing waits for the other read any more.
ReadFails(r) ==
    /\ r \in reads
    /\ reads' = IF r.alive THEN Stale(reads \ {r}) ELSE reads \ {r}
    /\ history' =
           IF ~r.alive THEN history
           ELSE [history EXCEPT !.error = HistoryLoadError,
                                !.loading = FALSE,
                                !.sessionsRes = PENDING,
                                !.statsRes = PENDING]
    /\ UNCHANGED <<currentStep, testResults, survey, tap, spiral, inflight>>

\* --------------------------------------------------------- specification
\* The whole wizard.  Taps follow each other without measurable delay.
Next ==
    \/ handleStartAssessment
    \/ handleRestart
    \/ goToHistory
    \/ goHome
    \/ \E q \in QuestionIds, v \in AnswerChoices : handleAnswerChange(q, v)
    \/ SurveyHandleSubmit
    \/ \E r \in Requests : \E score \in ScoreValues : SurveyResponse(r, score)
    \/ \E r \in Requests : SurveyFailure(r)
    \/ handleStart
    \/ (Len(tap.tapTimestamps) < MaxTaps /\ handleTap)
    \/ Tick
    \/ Expire
    \/ RevertTimer
    \/ \E r \in Requests : \E score \in ScoreValues : TapResponse(r, score)
    \/ \E r \in Requests : TapFailure(r)
    \/ (spiral.canvasStrokes < MaxStrokes /\ startDrawing)
    \/ stopDrawing
    \/ handleClear
    \/ SpiralHandleSubmit
    \/ \E r \in Requests : \E score \in ScoreValues : SpiralResponse(r, score)
    \/ \E r \in Requests : SpiralFailure(r)
    \/ \E r \in Requests : \E lvl \in RiskResponses : AggregateResponse(r, lvl)
    \/ \E r \in Requests : AggregateFailure(r)
    \/ fetchData
    \/ \E r \in reads : \E n \in WizardSessionCounts : SessionsReadResolves(r, n)
    \/ \E r \in reads : \E total \in WizardStatTotals : StatsReadResolves(r, total)
    \/ \E r \in reads : ReadFails(r)

Spec == Init /\ [][Next]_vars

\* The wizard with a user who goes straight through it: no navigation, no
\* clearing of the canvas, at least ValidTapCount taps in every capture before
\* its countdown ends, and a service that answers every request.
ValidTapCount == 4

NextLive ==
    \/ (currentStep = "landing" /\ handleStartAssessment)
    \/ \E q \in QuestionIds, v \in AnswerChoices : handleAnswerChange(q, v)
    \/ SurveyHandleSubmit
    \/ \E r \in Requests : \E score \in ScoreValues : SurveyResponse(r, score)
    \/ handleStart
    \/ (Len(tap.tapTimestamps) < MaxTaps /\ handleTap)
    \/ Tick
    \/ (tap.tapCount >= ValidTapCount /\ Expire)
    \/ RevertTimer
    \/ \E r \in Requests : \E score \in ScoreValues : TapResponse(r, score)
    \/ (spiral.canvasStrokes < MaxStrokes /\ startDrawing)
    \/ stopDrawing
    \/ SpiralHandleSubmit
    \/ \E r \in Requests : \E score \in ScoreValues : SpiralResponse(r, score)
    \/ \E r \in Requests : \E lvl \in RiskResponses : AggregateResponse(r, lvl)

\* The user keeps acting, the timers fire and every request is answered.
FairLive ==
    /\ WF_vars(currentStep = "landing" /\ handleStartAssessment)
    /\ \A q \in QuestionIds :
           WF_vars(\E v \in AnswerChoices : handleAnswerChange(q, v))
    /\ WF_vars(SurveyHandleSubmit)
    /\ WF_vars(\E r \in Requests : \E score \in ScoreValues : SurveyResponse(r, score))
    /\ WF_vars(handleStart)
    /\ WF_vars(Len(tap.tapTimestamps) < MaxTaps /\ handleTap)
    /\ WF_vars(Tick)
    /\ WF_vars(tap.tapCount >= ValidTapCount /\ Expire)
    /\ WF_vars(RevertTimer)
    /\ WF_vars(\E r \in Requests : \E score \in ScoreValues : TapResponse(r, score))
    /\ WF_vars(spiral.canvasStrokes < MaxStrokes /\ startDrawing)
    /\ WF_vars(stopDrawing)
    /\ WF_vars(SpiralHandleSubmit)
    /\ WF_vars(\E r \in Requests : \E score \in ScoreValues : SpiralResponse(r, score))
    /\ WF_vars(\E r \in Requests : \E lvl \in RiskResponses : AggregateResponse(r, lvl))

SpecLive == Init /\ [][NextLive]_vars /\ FairLive

\* The survey form on its own, from the state the wizard shows it in after
\* Start, with every option of every question.
InitSurvey ==
    /\ currentStep = "survey"
    /\ testResults = TestResultsInit
    /\ survey = SurveyInit
    /\ tap = TapInit
    /\ spiral = SpiralInit
    /\ inflight = EmptyBag
    /\ history = HistoryInit
    /\ reads = {}

NextSurvey ==
    \E q \in QuestionIds, v \in OptionValues : handleAnswerChange(q, v)

SpecSurvey == InitSurvey /\ [][NextSurvey]_vars

\* The history view on its own: entered and left from the landing page, with
\* stores of several sizes.
NextHistory ==
    \/ goToHistory
    \/ goHome
    \/ fetchData
    \/ \E r \in reads : \E n \in StoredSessionCounts : SessionsReadResolves(r, n)
    \/ \E r \in reads : \E total \in StatTotals : StatsReadResolves(r, total)
    \/ \E r \in reads : ReadFails(r)

SpecHistory == Init /\ [][NextHistory]_vars

\* The tap capture on its own, from the state the wizard shows it in after the
\* survey completed, with time passing between taps.
InitTap ==
    /\ currentStep = "taps"
    /\ \E score \in ScoreValues :
           testResults = [TestResultsInit EXCEPT !.survey = [score |-> score]]
    /\ survey = SurveyInit
    /\ tap = TapInit
    /\ spiral = SpiralInit
    /\ inflight = EmptyBag
    /\ history = HistoryInit
    /\ reads = {}

NextTap ==
    \/ (tap.sinceLastTap < MaxElapsed /\ TimePasses)
    \/ handleStart
    \/ (Len(tap.tapTimestamps) < MaxTaps /\ handleTap)
    \/ Tick
    \/ Expire
    \/ RevertTimer
    \/ \E r \in Requests : \E score \in ScoreValues : TapResponse(r, score)
    \/ \E r \in Requests : TapFailure(r)

SpecTap == InitTap /\ [][NextTap]_vars

\* The tap capture with an interval timer that keeps firing while it is set.
SpecTapFair == SpecTap /\ WF_vars(Tick) /\ WF_vars(Expire)

\* ------------------------------------------------------------ properties
Instruments == {"survey", "taps", "spiral"}

\* A request of this kind leaves in this step (a new request still has its
\* component, so unmounting alone never counts).
Issued(kind) ==
    \E r \in BagToSet(inflight') :
        /\ r.kind = kind
        /\ kind \in Instruments => r.alive
        /\ CopiesIn(r, inflight') > CopiesIn(r, inflight)

\* This step is the continuation of a resolved scoring request of this kind.
Completion(kind) ==
    \/ kind = "survey" /\ \E r \in Requests : \E sc \in ScoreValues : SurveyResponse(r, sc)
    \/ kind = "taps" /\ \E r \in Requests : \E sc \in ScoreValues : TapResponse(r, sc)
    \/ kind = "spiral" /\ \E r \in Requests : \E sc \in ScoreValues : SpiralResponse(r, sc)

StepRank(s) ==
    CASE s = "landing" -> 0
      [] s = "survey"  -> 1
      [] s = "taps"    -> 2
      [] s = "spiral"  -> 3
      [] s = "loading" -> 4
      [] s = "results" -> 5
      [] OTHER         -> 0

\* C1: an aggregate request is issued only while the orchestrator holds a
\* stored survey result and a stored taps result, and it carries three defined
\* sub-scores.
C1_AggregateNeedsThreeScores ==
    [][Issued("aggregate") =>
          /\ testResults'.survey # NULL
          /\ testResults'.taps # NULL
          /\ testResults'.spiral # NULL
          /\ \A r \in BagToSet(inflight') :
                 r.kind = "aggregate" =>
                     /\ r.survey_score # UNDEFINED
                     /\ r.tap_score # UNDEFINED
                     /\ r.spiral_score # UNDEFINED]_vars

\* C2: every tap request sent carries at least 3 intervals, and a capture whose
\* raw list has 3 entries or fewer sends no request.
C2_TapRequestHasThreeIntervals ==
    \A r \in Requests : r.kind = "taps" => Len(r.intervals) >= 3

\* C3: the interval list of a tap request is the whole list of intervals
\* recorded while Running, in order, without its first interval.
C3_TapRequestCarriesAllTaps ==
    [][Issued("taps") =>
          \E r \in BagToSet(inflight') :
              /\ r.kind = "taps" /\ r.alive
              /\ CopiesIn(r, inflight') > CopiesIn(r, inflight)
              /\ r.intervals = SubSeq(tap.tapTimestamps, 2, Len(tap.tapTimestamps))]_vars

\* C4: survey handleSubmit issues a scoring request exactly when all 5 question
\* ids have an answer in 0..4; otherwise it shows the validation error, issues
\* no request and leaves the answers and the orchestrator state unchanged.
C4_SurveySubmitValidation ==
    [][SurveyHandleSubmit =>
          LET allAnswered == \A q \in QuestionIds : survey.answers[q] \in OptionValues
          IN /\ Issued("survey") <=> allAnswered
             /\ ~allAnswered =>
                    /\ survey'.error = SurveyValidationError
                    /\ inflight' = inflight
                    /\ survey'.answers = survey.answers
                    /\ currentStep' = currentStep
                    /\ testResults' = testResults]_vars

\* C4 witness: a submit with an unanswered question has failed.
C4_Witness ==
    /\ currentStep = "survey"
    /\ survey.error = SurveyValidationError
    /\ \E q \in QuestionIds : survey.answers[q] = UNDEFINED
    /\ inflight = EmptyBag

\* C5: spiral handleSubmit shows the validation error and issues no request
\* when no stroke was begun since the initial state or the last clear; after
\* at least one stroke it issues the scoring request.
C5_SpiralSubmitValidation ==
    [][SpiralHandleSubmit =>
          IF spiral.canvasStrokes = 0
          THEN /\ spiral'.error = SpiralValidationError
               /\ inflight' = inflight
          ELSE /\ Issued("spiral")
               /\ spiral'.error = NoError]_vars

\* C5 witness: a submit on a canvas without a stroke has failed.
C5_Witness ==
    /\ currentStep = "spiral"
    /\ spiral.error = SpiralValidationError
    /\ spiral.canvasStrokes = 0
    /\ ~spiral.hasDrawn
    /\ inflight = EmptyBag

\* C6: once an instrument has a stored result, a second completion for that
\* instrument changes neither its stored result nor the current step.
C6_SecondCompletionRejected ==
    [][\A k \in Instruments :
          (Completion(k) /\ testResults[k] # NULL) =>
              /\ testResults'[k] = testResults[k]
              /\ currentStep' = currentStep]_vars

\* C7: a scoring response that arrives while the current step is not the step
\* of its instrument changes neither the step nor the stored results.
C7_AdvanceOnlyAtOwnStep ==
    [][\A k \in Instruments :
          (Completion(k) /\ currentStep # k) =>
              /\ currentStep' = currentStep
              /\ testResults' = testResults]_vars

\* C8: apart from Restart and entering or leaving History, no step moves the
\* wizard to an earlier step of Landing, Survey, TapTest, Spiral, Aggregating,
\* Results.
C8_ForwardOnly ==
    [][(~handleRestart /\ currentStep # "history" /\ currentStep' # "history") =>
          StepRank(currentStep') >= StepRank(currentStep)]_vars

\* C9: History can be entered from every state, and the only step out of
\* History goes to Landing.
C9_HistoryLeavesToLanding ==
    /\ [](ENABLED goToHistory)
    /\ [][currentStep = "history" => currentStep' \in {"history", "landing"}]_vars

\* C10: Restart sets the step to Landing and empties all four slots, and the
\* slots stay empty until the next sub-score completion.
C10_RestartClearsResults ==
    [][/\ handleRestart =>
              (currentStep' = "landing" /\ testResults' = TestResultsInit)
       /\ (testResults = TestResultsInit /\ \A k \in Instruments : ~Completion(k)) =>
              testResults' = TestResultsInit]_vars

\* The error message the component on screen shows, if any.
ErrorVisible ==
    \/ currentStep = "survey" /\ survey.error # NoError
    \/ currentStep = "taps" /\ tap.error # NoError
    \/ currentStep = "spiral" /\ spiral.error # NoError
    \/ currentStep = "history" /\ ~history.loading /\ history.error # NoError

AggregateFails == \E r \in Requests : AggregateFailure(r)

\* C11: when the aggregate request fails while the wizard is aggregating, the
\* step stays "loading", the failure is shown to the user as an error, and no
\* aggregate request is issued by the failure.
C11_AggregateFailureSurfaced ==
    [][(AggregateFails /\ currentStep = "loading")
           => /\ currentStep' = "loading"
              /\ ErrorVisible'
              /\ ~Issued("aggregate")]_vars

\* C12: a failing aggregate request leaves the stored sub-score results, and
\* the rest of the stored results, exactly as they were.
C12_AggregateFailureKeepsResults ==
    [][AggregateFails => testResults' = testResults]_vars

\* The wizard is aggregating, the aggregate request has failed, and the three
\* sub-scores are still stored.
C12_Witness ==
    /\ currentStep = "loading"
    /\ inflight = EmptyBag
    /\ testResults.final = NULL
    /\ \A kind \in Instruments : testResults[kind] # NULL

\* C13: a tap made while the capture is not running, or while no time is
\* left, changes neither the tap count nor the recorded intervals.
C13_TapOutsideRunIgnored ==
    [][(handleTap /\ (~tap.isActive \/ tap.timeLeft = 0))
           => /\ tap'.tapCount = tap.tapCount
              /\ tap'.tapTimestamps = tap.tapTimestamps]_vars

\* A finished capture that recorded taps and where a further tap can be made.
C13_Witness ==
    /\ currentStep = "taps"
    /\ ~tap.isActive
    /\ tap.timeLeft = 0
    /\ tap.tapCount > 0
    /\ Len(tap.tapTimestamps) < MaxTaps

\* Completion processing started in this step: scoring requests posted plus
\* insufficient-data errors raised.
CompletionRuns ==
    (InFlightCount' - InFlightCount) + (tap'.revertTimers - tap.revertTimers)

\* C14: when the countdown reaches 0 during a running capture, the capture
\* stops running and completion processing runs exactly once in that step; a
\* tap scoring request is posted by no other step, so a started capture is
\* completed neither zero times nor twice, whatever taps came between ticks.
C14_ExpiryCompletesOnce ==
    /\ [](tap.timeLeft = 0 => ~tap.isActive)
    /\ [][(tap.isActive /\ tap'.timeLeft = 0)
              => (~tap'.isActive /\ CompletionRuns = 1)]_vars
    /\ [][Issued("taps") => (tap.isActive /\ tap.timeLeft = 1 /\ ~tap'.isActive)]_vars

\* A capture with taps has expired and its one scoring request is pending.
C14_Witness ==
    /\ currentStep = "taps"
    /\ ~tap.isActive /\ tap.timeLeft = 0 /\ tap.loading
    /\ tap.tapCount >= 3
    /\ InFlightCount = 1
    /\ \E r \in Requests : r.kind = "taps" /\ r.alive

\* The Start button of the tap capture is shown and starts a capture.
StartAvailable ==
    /\ currentStep = "taps"
    /\ ~tap.isActive /\ ~tap.loading /\ tap.error = NoError

TimerCallbacks == Tick \/ Expire \/ RevertTimer

\* C16: while a capture shows the error of a failed scoring request, a timer
\* is pending whose callback clears the error and brings the capture back to
\* its instructional state -- in the tap capture and in the spiral capture.
C16_ServiceFailureAutoRevert ==
    /\ (currentStep = "taps" /\ tap.error = TapServiceError)
           => ENABLED (TimerCallbacks /\ tap'.error = NoError /\ tap'.showInstructions)
    /\ (currentStep = "spiral" /\ spiral.error = SpiralServiceError)
           => ENABLED (TimerCallbacks /\ spiral'.error = NoError)

\* C16, amended: after a failed scoring request the tap capture has its
\* 3-second timer pending, and its callback shows the instructions with the
\* error cleared and Start available; the spiral capture schedules no timer:
\* its error stays until the user submits again (or the step is left), with
\* the drawing kept and Submit usable at once.  In both captures a scoring
\* request is posted only by a capture the user started or a submit the user
\* made after the failure.
C16_ServiceFailureRecovery ==
    /\ [](tap.error = TapServiceError
              => /\ currentStep = "taps" /\ ~tap.isActive /\ ~tap.loading
                 /\ ENABLED (RevertTimer /\ StartAvailable' /\ tap'.showInstructions))
    /\ [](spiral.error = SpiralServiceError
              => /\ currentStep = "spiral" /\ ~spiral.loading
                 /\ ~ENABLED TimerCallbacks)
    /\ [][(\E r \in Requests : r.kind = "spiral" /\ r.alive /\ SpiralFailure(r))
              => /\ spiral'.error = SpiralServiceError
                 /\ spiral'.hasDrawn
                 /\ spiral'.canvasStrokes = spiral.canvasStrokes
                 /\ ~spiral'.loading]_vars
    /\ [][(spiral.error = SpiralServiceError /\ spiral'.error # SpiralServiceError)
              => (SpiralHandleSubmit \/ currentStep' # "spiral")]_vars
    /\ [][(~tap.isActive /\ tap'.isActive) => handleStart]_vars
    /\ [][Issued("taps") => tap.isActive]_vars
    /\ [][Issued("spiral") => SpiralHandleSubmit]_vars

\* The spiral capture shows the error of a failed scoring request, with the
\* drawing kept and no request pending.
C16_Witness ==
    /\ currentStep = "spiral"
    /\ spiral.error = SpiralServiceError
    /\ spiral.hasDrawn /\ ~spiral.loading
    /\ inflight = EmptyBag

\* C20: an aggregate response whose risk_level is none of the five categories
\* does not bring the wizard to the results step, and whenever the results
\* step is shown the stored final record carries one of the five categories.
C20_ResultsRiskLevelValid ==
    /\ [][(\E r \in Requests : \E lvl \in RiskResponses \ RiskLevels :
               AggregateResponse(r, lvl)) => currentStep' # "results"]_vars
    /\ []((currentStep = "results" /\ testResults.final # NULL)
              => testResults.final.risk_level \in RiskLevels)

\* Reads whose result the mounted history view waits for.
AliveReads == {r \in reads : r.alive}

\* This step is the resolution or rejection of the read r.
ReadSettles(r) ==
    \/ \E n \in StoredSessionCounts \cup WizardSessionCounts : SessionsReadResolves(r, n)
    \/ \E total \in StatTotals \cup WizardStatTotals : StatsReadResolves(r, total)
    \/ ReadFails(r)

\* C17: while a read of the running load is unresolved the history view shows
\* only its spinner; the sessions and the statistics of a mounted view change
\* only in the step in which the second read of its load resolves, both
\* taken from that load, with the error cleared; when a read of the load
\* fails, neither changes and the error is set.
C17_HistoryLoadAtomic ==
    /\ [](AliveReads # {} => (currentStep = "history" /\ history.loading))
    /\ [][(/\ currentStep = "history" /\ currentStep' = "history"
           /\ \/ history'.sessions # history.sessions
              \/ history'.statistics # history.statistics)
              => /\ history.loading /\ ~history'.loading
                 /\ history'.error = NoError
                 /\ AliveReads' = {}
                 /\ \E r \in AliveReads : AliveReads = {r} /\ ReadSettles(r)
                 /\ history.sessionsRes # PENDING
                        => history'.sessions = history.sessionsRes.sessions
                 /\ history.statsRes # PENDING
                        => history'.statistics = history.statsRes
                 /\ (history.sessionsRes # PENDING) # (history.statsRes # PENDING)]_vars
    /\ [][(\E r \in AliveReads : ReadFails(r))
              => /\ history'.sessions = history.sessions
                 /\ history'.statistics = history.statistics
                 /\ history'.error = HistoryLoadError
                 /\ ~history'.loading]_vars

\* A load has resolved: the view shows sessions and statistics, no error.
C17_Witness ==
    /\ currentStep = "history"
    /\ ~history.loading
    /\ history.error = NoError
    /\ Len(history.sessions) > 0
    /\ history.statistics # NULL
    /\ reads = {}

\* C18: for every loaded list of sessions the trend has at most 30 entries
\* and the comparison at most 10; the trend holds the most recent sessions of
\* the list shown, oldest first and without a gap, and the comparison is the
\* end of the trend.
C18_TrendProjections ==
    LET loaded == history.sessions
        trend == trendData(loaded)
        comparison == comparisonData(loaded)
    IN /\ Len(trend) = Min(Len(loaded), TrendLimit)
       /\ Len(comparison) = Min(Len(loaded), ComparisonLimit)
       /\ \A i \in 1..Len(trend) :
              trend[i] = TrendEntry(loaded[Len(trend) + 1 - i])
       /\ \A j \in 1..Len(comparison) :
              comparison[j] = trend[Len(trend) - Len(comparison) + j]

\* The view shows a list of more than 30 sessions.
C18_Witness ==
    /\ currentStep = "history"
    /\ ~history.loading
    /\ Len(history.sessions) > TrendLimit
    /\ Len(trendData(history.sessions)) = TrendLimit

\* C19: a load is started only when the view waits for no other load, and
\* the reads of a load that a later load has replaced change nothing when
\* they resolve or fail: what the view shows comes from the load issued last.
C19_LatestLoadWins ==
    /\ [](AliveReads # {} => (currentStep = "history" /\ history.loading))
    /\ [][AliveReads' \ AliveReads # {}
              => (currentStep # "history" \/ (~history.loading /\ AliveReads = {}))]_vars
    /\ [][(\E r \in reads \ AliveReads : ReadSettles(r)) => history' = history]_vars

\* The view shows the result of its own load while a read of an earlier load
\* is still unresolved.
C19_Witness ==
    /\ currentStep = "history"
    /\ ~history.loading
    /\ history.error = NoError
    /\ history.statistics # NULL
    /\ reads # {}
    /\ AliveReads = {}

\* The capture of this instrument is on screen or has a scoring request
\* that has not resolved.
CaptureActive(kind) ==
    \/ currentStep = kind
    \/ \E r \in Requests : r.kind = kind

\* C21: at most one instrument capture is active at any time, where active
\* means being the current step or having an unresolved scoring request.
C21_SingleActiveCapture ==
    \A k1, k2 \in Instruments :
        (CaptureActive(k1) /\ CaptureActive(k2)) => k1 = k2

\* C22: no history read is in flight while a capture step is current or a
\* scoring or aggregate request is unresolved.
C22_HistoryReadsApartFromCaptures ==
    reads # {} => (currentStep \notin Instruments /\ inflight = EmptyBag)

\* C23: the wizard enters the results step only from the aggregating step,
\* and only as the continuation of a successful aggregate response.
C23_ResultsOnlyFromAggregating ==
    [][(currentStep # "results" /\ currentStep' = "results")
           => /\ currentStep = "loading"
              /\ \E r \in Requests : \E lvl \in RiskResponses :
                     AggregateResponse(r, lvl)]_vars

\* C24: handleStart puts the capture in the running state with tap count 0,
\* no recorded interval and 10 seconds left, whatever the previous capture
\* left behind, and the first interval recorded afterwards is the time that
\* passed since that start.
C24_StartResetsCapture ==
    /\ [][handleStart
              => /\ tap'.isActive
                 /\ tap'.tapCount = 0
                 /\ tap'.tapTimestamps = <<>>
                 /\ tap'.timeLeft = TestDuration
                 /\ tap'.sinceLastTap = 0]_vars
    /\ [][(tap.isActive /\ tap.tapTimestamps = <<>> /\ tap'.tapTimestamps # <<>>)
              => tap'.tapTimestamps = <<tap.sinceLastTap>>]_vars

\* A running capture whose first tap came some time after the start.
C24_Witness ==
    /\ currentStep = "taps"
    /\ tap.isActive
    /\ tap.tapCount = 1
    /\ Len(tap.tapTimestamps) = 1
    /\ tap.tapTimestamps[1] > 0

\* C25: after handleAnswerChange(q, v) the answer of q is v whatever it was
\* before and every other answer is as it was; recording an answer that is
\* already the answer of q changes nothing, so recording twice equals
\* recording once.
C25_RecordAnswerOverwrites ==
    /\ [][\A q \in QuestionIds, v \in OptionValues :
              handleAnswerChange(q, v)
                  => /\ survey'.answers[q] = v
                     /\ \A p \in QuestionIds \ {q} :
                            survey'.answers[p] = survey.answers[p]]_vars
    /\ [](\A q \in QuestionIds, v \in OptionValues :
              survey.answers[q] = v
                  => ~ENABLED (handleAnswerChange(q, v) /\ survey' # survey))

\* Every question is answered, not all with the same option.
C25_Witness ==
    /\ currentStep = "survey"
    /\ isComplete(survey.answers)
    /\ \E p, q \in QuestionIds : survey.answers[p] # survey.answers[q]

\* C26: the stored results are prefix-closed in pipeline order: a stored tap
\* result comes with a stored survey result, a stored spiral result with a
\* stored tap result, and a stored final record with all three sub-scores.
C26_ResultsPrefixClosed ==
    /\ testResults.taps # NULL => testResults.survey # NULL
    /\ testResults.spiral # NULL => testResults.taps # NULL
    /\ testResults.final # NULL
           => \A kind \in Instruments : testResults[kind] # NULL

\* C27: whenever Start moves the wizard from the landing step to the survey
\* step, no result is stored: survey, taps, spiral and final are all absent.
C27_StartWithEmptyResults ==
    [][(handleStartAssessment /\ currentStep = "landing")
           => testResults = TestResultsInit]_vars

\* C28: whenever the results step is shown, the survey, tap and spiral scores
\* of the stored final record equal the scores of the stored survey, tap and
\* spiral results.
C28_FinalRecordMatchesStored ==
    (currentStep = "results" /\ testResults.final # NULL)
        => /\ testResults.final.survey_score = ScoreOf(testResults.survey)
           /\ testResults.final.tap_score = ScoreOf(testResults.taps)
           /\ testResults.final.spiral_score = ScoreOf(testResults.spiral)

\* C29: whenever the results step is shown a final session record is stored,
\* so FinalDashboard never shows "No results available".
C29_ResultsHaveFinalRecord ==
    currentStep = "results" => testResults.final # NULL

\* The results step shows a stored final record.
C29_Witness ==
    /\ currentStep = "results"
    /\ testResults.final # NULL
    /\ testResults.final.risk_level \in RiskLevels

\* C30: in the tap capture the tap count equals the number of recorded
\* intervals in every reachable state.
C30_TapCountIsListLength ==
    tap.tapCount = Len(tap.tapTimestamps)

\* A running capture has recorded taps between ticks of its countdown.
C30_Witness ==
    /\ currentStep = "taps"
    /\ tap.isActive
    /\ ~tap.showInstructions
    /\ tap.timeLeft < TestDuration
    /\ tap.tapCount = MaxTaps

\* C31: an aggregate request is issued only by the continuation of a spiral
\* scoring request that succeeded, in the step that hands the spiral result
\* to the App, and that step issues exactly one; a spiral scoring request
\* that fails issues none and leaves the step as it is, which is the spiral
\* step when the submitting component is still shown.
C31_AggregateAfterSpiralSuccess ==
    /\ [][Issued("aggregate")
              => \E r \in Requests : \E sc \in ScoreValues :
                     /\ SpiralResponse(r, sc)
                     /\ testResults'.spiral = [score |-> sc]
                     /\ currentStep' = "loading"]_vars
    /\ [][(\E r \in Requests : \E sc \in ScoreValues : SpiralResponse(r, sc))
              => (Issued("aggregate") /\ InFlightCount' = InFlightCount)]_vars
    /\ [][(\E r \in Requests : SpiralFailure(r))
              => /\ ~Issued("aggregate")
                 /\ InFlightCount' = InFlightCount - 1
                 /\ currentStep' = currentStep]_vars
    /\ [][(\E r \in Requests : r.kind = "spiral" /\ r.alive /\ SpiralFailure(r))
              => currentStep' = "spiral"]_vars

\* The spiral score was stored and the one aggregate request of that submit
\* is pending.
C31_Witness ==
    /\ currentStep = "loading"
    /\ testResults.spiral # NULL
    /\ InFlightCount = 1
    /\ \E r \in Requests : r.kind = "aggregate"

\* C32: with a service that answers every request, a countdown that keeps
\* ticking and a user who gives valid input at every step and never navigates
\* away, the wizard eventually shows the results step, and every change of
\* step on the way is a move to the next step of the pipeline.
C32_EventuallyResults ==
    /\ <>(currentStep = "results")
    /\ [][currentStep' # currentStep
              => StepRank(currentStep') = StepRank(currentStep) + 1]_vars

\* C33: the remaining time of the tap countdown stays within 0..TestDuration;
\* start() sets it to TestDuration; while the capture runs it never increases,
\* each interval callback takes exactly one off it and no other step changes
\* it or stops the capture; the capture stops in the callback that takes it
\* from 1 to 0, the TestDuration-th one; and with a timer that keeps firing
\* every running capture stops, whatever taps come between the callbacks.
C33_CountdownTerminates ==
    /\ [](tap.timeLeft \in 0..TestDuration)
    /\ [](tap.isActive => tap.timeLeft >= 1)
    /\ [][handleStart => (tap'.isActive /\ tap'.timeLeft = TestDuration)]_vars
    /\ [][(tap.isActive /\ tap'.isActive) => tap'.timeLeft <= tap.timeLeft]_vars
    /\ [][(Tick \/ Expire) => tap'.timeLeft = tap.timeLeft - 1]_vars
    /\ [][(tap.isActive /\ ~(Tick \/ Expire))
              => (tap'.isActive /\ tap'.timeLeft = tap.timeLeft)]_vars
    /\ [][(tap.isActive /\ ~tap'.isActive)
              => (Expire /\ tap.timeLeft = 1 /\ tap'.timeLeft = 0)]_vars
    /\ (tap.isActive ~> ~tap.isActive)

\* A capture in which every tap the bound allows was made has run out.
C33_Witness ==
    /\ currentStep = "taps"
    /\ ~tap.isActive /\ tap.timeLeft = 0
    /\ tap.tapCount = MaxTaps

\* The tap scoring requests of the mounted capture component still in flight.
PendingTapRequests == {r \in BagToSet(inflight) : r.kind = "taps" /\ r.alive}

\* C34: in the tap capture, start() is not available while an error is shown
\* or a submission is in flight; a pending revert timer means an error is
\* shown and the capture is neither running nor submitting, so the timer of a
\* failed capture fires before any later capture starts and never during a
\* running capture or a pending submission; and at most one tap scoring
\* request of the mounted capture component is in flight at any time.
C34_RevertBeforeNextCapture ==
    /\ []((tap.error # NoError \/ tap.loading) => ~ENABLED handleStart)
    /\ [][handleStart => (tap.revertTimers = 0 /\ PendingTapRequests = {})]_vars
    /\ [](tap.revertTimers > 0
              => (tap.error # NoError /\ ~tap.isActive /\ ~tap.loading
                    /\ tap.revertTimers = 1 /\ PendingTapRequests = {}))
    /\ [][RevertTimer => (~tap.isActive /\ ~tap.loading /\ ~tap'.isActive
                            /\ PendingTapRequests = {})]_vars
    /\ [](\A r \in PendingTapRequests :
              PendingTapRequests = {r} /\ CopiesIn(r, inflight) = 1)
    /\ [](PendingTapRequests # {} => (tap.loading /\ ~tap.isActive))

\* The scoring request of a capture has failed: its error is shown, its revert
\* timer is pending and no request of the capture is in flight.
C34_Witness ==
    /\ currentStep = "taps"
    /\ tap.error = TapServiceError
    /\ tap.revertTimers = 1
    /\ ~ENABLED handleStart
    /\ PendingTapRequests = {}

=============================================================================
